---- MODULE Spec2Model ----
(***************************************************************************)
(* A model of PyHT6022/LibUsbScope.py: the Oscilloscope session object,    *)
(* the USB transport it drives (python-libusb1), and the transfers each    *)
(* method issues.  Every method is one atomic action, except              *)
(* flash_firmware, which is two: up to its time.sleep(0.1), and from it    *)
(* on, so that other calls on the session can fall into the sleep.  The    *)
(* transport calls a step issues are recorded, in order, in `calls`.       *)
(***************************************************************************)
EXTENDS Integers, Sequences, FiniteSets, TLC

(* ------------------------------ bounds -------------------------------- *)
MaxHandles == 2
MaxAddr == 2
MaxPoints == 1
MaxCal == 1
MaxSleeping == 1

(* ------------------------- protocol constants ------------------------- *)
ALT_VENDOR_ID == 1204
VENDOR_ID == 1205
MODEL_ID == 24610
UPLOAD_FIRMWARE_REQUEST == 160
UPLOAD_FIRMWARE_INDEX == 0
RW_CALIBRATION_REQUEST == 162
RW_CALIBRATION_VALUE == 8
RW_CALIBRATION_INDEX == 0
SET_SAMPLE_RATE_REQUEST == 226
SET_SAMPLE_RATE_VALUE == 0
SET_SAMPLE_RATE_INDEX == 0
SET_CH1_VR_REQUEST == 224
SET_CH1_VR_VALUE == 0
SET_CH1_VR_INDEX == 0
SET_CH2_VR_REQUEST == 225
SET_CH2_VR_VALUE == 0
SET_CH2_VR_INDEX == 0

(* A vendor id and a product id that are not the scope's. *)
OTHER_VENDOR_ID == VENDOR_ID + 1
OTHER_MODEL_ID == MODEL_ID + 1

VARIABLES
  context,        \* self.context: "None" or "USBContext"
  device,         \* self.device: NoDevice or the device object found by setup()
  device_handle,  \* self.device_handle: None or the id of an opened handle
  bus,            \* the scope as the USB bus currently enumerates it
  handles,        \* every handle device.open() has returned, by id
  reader,         \* the closure last returned by build_data_reader
  sleeping,       \* the calls of flash_firmware that are in time.sleep(0.1), and
                  \* whether each has written a packet
  calls,          \* the transport calls the last method issued, in order
  ret,            \* how the last method ended
  last,           \* the last method called, with its arguments
  pre             \* the session as it was when the last method was called

vars == <<context, device, device_handle, bus, handles, reader, sleeping, calls, ret, last,
          pre>>

None == 0
NoDevice == [vid |-> 0, pid |-> 0, addr |-> 0]
NoReader == [h |-> None, raw |-> FALSE]

(* A one-character string of Python 2; ord and chr convert to and from int. *)
chr(n) == [c |-> n]
ord(ch) == ch.c

RECURSIVE map_ord(_)
map_ord(str) == IF str = <<>> THEN <<>> ELSE <<ord(Head(str))>> \o map_ord(Tail(str))

RECURSIVE map_chr(_)
map_chr(lst) == IF lst = <<>> THEN <<>> ELSE <<chr(Head(lst))>> \o map_chr(Tail(lst))

(* -------------------------- the USB transport -------------------------- *)
NoCall == [fn |-> "", h |-> None, args |-> <<>>, data |-> <<>>,
           err |-> FALSE, n |-> 0, rdata |-> <<>>]

Log(s, c) == [s EXCEPT !.calls = Append(@, c)]

(* The result of a method or of a transport call on session s. *)
R(s, kind) == [s |-> s, kind |-> kind, v1 |-> <<>>, v2 |-> <<>>]

(* context.getByVendorIDAndProductID: the enumerated device, if it matches *)
getByVendorIDAndProductID(s, vendor_id, product_id) ==
  IF s.bus.vid = vendor_id /\ s.bus.pid = product_id THEN s.bus ELSE NoDevice

(* How device.open() and the three calls after it can end: the first call that
   raises, if any, and whether the kernel driver was active and detached. *)
OpenOutcomes == {"ok", "ok_detach", "open_err", "kda_err", "detach_err", "claim_err",
                 "detach_claim_err"}

(* device.open(): a new handle on the device, or a USBError *)
device_open(s, o) ==
  LET c == [NoCall EXCEPT !.fn = "open", !.args = <<s.device.addr>>] IN
  IF o = "open_err"
  THEN R(Log(s, [c EXCEPT !.err = TRUE]), "USBError")
  ELSE LET id == Len(s.handles) + 1 IN
       R(Log([s EXCEPT !.handles = Append(@, [dev |-> s.device.addr, open |-> TRUE,
                                               claimed |-> FALSE]),
                       !.device_handle = id],
             [c EXCEPT !.n = id]), "True")

(* handle.kernelDriverActive(0) *)
kernelDriverActive(s, o) ==
  LET c == [NoCall EXCEPT !.fn = "kernelDriverActive", !.h = s.device_handle, !.args = <<0>>] IN
  IF o = "kda_err" THEN R(Log(s, [c EXCEPT !.err = TRUE]), "USBError")
  ELSE IF o \in {"ok_detach", "detach_err", "detach_claim_err"}
       THEN R(Log(s, [c EXCEPT !.n = 1]), "True")
  ELSE R(Log(s, c), "False")

(* handle.detachKernelDriver(0) *)
detachKernelDriver(s, o) ==
  LET c == [NoCall EXCEPT !.fn = "detachKernelDriver", !.h = s.device_handle, !.args = <<0>>] IN
  IF o = "detach_err" THEN R(Log(s, [c EXCEPT !.err = TRUE]), "USBError")
  ELSE R(Log(s, c), "True")

(* handle.claimInterface(0) *)
claimInterface(s, o) ==
  LET c == [NoCall EXCEPT !.fn = "claimInterface", !.h = s.device_handle, !.args = <<0>>] IN
  IF o \in {"claim_err", "detach_claim_err"}
  THEN R(Log(s, [c EXCEPT !.err = TRUE]), "USBError")
  ELSE R(Log([s EXCEPT !.handles[s.device_handle].claimed = TRUE], c), "True")

(* handle.releaseInterface(0): fails when asked to, and always when the handle
   holds no claim on the interface. *)
releaseInterface(s, fails) ==
  LET h == s.device_handle
      c == [NoCall EXCEPT !.fn = "releaseInterface", !.h = h, !.args = <<0>>] IN
  IF fails \/ ~s.handles[h].claimed
  THEN R(Log(s, [c EXCEPT !.err = TRUE]), "USBError")
  ELSE R(Log([s EXCEPT !.handles[h].claimed = FALSE], c), "True")

(* handle.close(): the handle is closed and gives up its claim *)
handle_close(s) ==
  LET h == s.device_handle
      c == [NoCall EXCEPT !.fn = "close", !.h = h] IN
  R(Log([s EXCEPT !.handles[h].open = FALSE, !.handles[h].claimed = FALSE], c), "True")

(* A transfer can succeed only on a handle that is open on the device the bus
   still enumerates. *)
Usable(s, h) ==
  /\ h \in 1..Len(s.handles)
  /\ s.handles[h].open
  /\ s.bus.addr = s.handles[h].dev

(* handle.controlWrite(0x40, request, value, index, data, timeout): n bytes
   transferred, or a USBError when n < 0 *)
controlWrite(s, h, request, value, index, data, timeout, n) ==
  LET c == [NoCall EXCEPT !.fn = "controlWrite", !.h = h,
                          !.args = <<64, request, value, index, timeout>>, !.data = data] IN
  IF n < 0 \/ ~Usable(s, h)
  THEN R(Log(s, [c EXCEPT !.err = TRUE]), "USBError")
  ELSE [R(Log(s, [c EXCEPT !.n = n]), "int") EXCEPT !.v1 = <<n>>]

(* handle.controlRead(0x40, request, value, index, length, timeout) *)
controlRead(s, h, request, value, index, length, timeout, x) ==
  LET c == [NoCall EXCEPT !.fn = "controlRead", !.h = h,
                          !.args = <<64, request, value, index, length, timeout>>] IN
  IF x.err \/ ~Usable(s, h)
  THEN R(Log(s, [c EXCEPT !.err = TRUE]), "USBError")
  ELSE [R(Log(s, [c EXCEPT !.n = Len(x.data), !.rdata = x.data]), "str") EXCEPT !.v1 = x.data]

(* handle.bulkRead(endpoint, length, timeout) *)
bulkRead(s, h, endpoint, length, timeout, x) ==
  LET c == [NoCall EXCEPT !.fn = "bulkRead", !.h = h, !.args = <<endpoint, length, timeout>>] IN
  IF x.err \/ ~Usable(s, h)
  THEN R(Log(s, [c EXCEPT !.err = TRUE]), "USBError")
  ELSE [R(Log(s, [c EXCEPT !.n = Len(x.data), !.rdata = x.data]), "str") EXCEPT !.v1 = x.data]

(* --------------------------- Device Session ---------------------------- *)
(* A method is written as its steps, last step first: each step takes the
   result of the step before it. *)

(* One lookup of setup: the call, and the device it returned. *)
lookup(s, vendor_id) ==
  LET d == getByVendorIDAndProductID(s, vendor_id, MODEL_ID) IN
  [s |-> Log(s, [NoCall EXCEPT !.fn = "getByVendorIDAndProductID",
                               !.args = <<vendor_id, MODEL_ID>>, !.n = d.addr]),
   d |-> d]

(* setup: "if not self.device: return False / return True" *)
setup_return(l) ==
  R([l.s EXCEPT !.device = l.d], IF l.d = NoDevice THEN "False" ELSE "True")

(* setup: the alternate vendor id is looked up only if the primary found nothing *)
setup_or(l) ==
  IF l.d # NoDevice THEN setup_return(l) ELSE setup_return(lookup(l.s, ALT_VENDOR_ID))

(* Oscilloscope.setup *)
setup(s) ==
  setup_or(lookup(Log([s EXCEPT !.context = "USBContext"], [NoCall EXCEPT !.fn = "USBContext"]),
                  VENDOR_ID))

(* A step that raised ends the method; otherwise the method returns kind. *)
Returns(r, kind) == IF r.kind = "USBError" THEN r ELSE R(r.s, kind)

(* open_handle: claimInterface(0), return True *)
open_claim(dt, o) ==
  IF dt.kind = "USBError" THEN dt ELSE Returns(claimInterface(dt.s, o), "True")

(* open_handle: detachKernelDriver(0) if the kernel driver is active *)
open_detach(ka, o) ==
  IF ka.kind = "USBError" THEN ka
  ELSE open_claim(IF ka.kind = "True" THEN detachKernelDriver(ka.s, o) ELSE ka, o)

(* open_handle: kernelDriverActive(0) on the handle just stored *)
open_active(op, o) ==
  IF op.kind = "USBError" THEN op ELSE open_detach(kernelDriverActive(op.s, o), o)

(* open_handle: "not self.setup()" returns False, else device.open() *)
open_device(d, o) ==
  IF d.kind # "True" THEN R(d.s, "False") ELSE open_active(device_open(d.s, o), o)

(* Oscilloscope.open_handle *)
open_handle(s, o) ==
  IF s.device_handle # None THEN R(s, "True")
  ELSE IF s.device = NoDevice THEN R(s, "False")
  ELSE open_device(setup(s), o)

(* close_clear without "self.device_handle = None". *)
close_clear_forgotten(c) == R(c.s, "True")

(* close_handle: self.device_handle = None, return True *)
close_clear(c) == R([c.s EXCEPT !.device_handle = None], "True")

(* close_handle: self.device_handle.close() *)
close_close(rl) == IF rl.kind = "USBError" THEN rl ELSE close_clear(handle_close(rl.s))

(* Oscilloscope.close_handle *)
close_handle(s, release_interface, fails) ==
  IF s.device_handle = None THEN R(s, "True")
  ELSE close_close(IF release_interface THEN releaseInterface(s, fails) ELSE R(s, "True"))

(* assert_opened without its assert: the result of open_handle is dropped. *)
assert_opened_dropped(a) == IF a.kind = "False" THEN R(a.s, "True") ELSE a

(* "assert self.open_handle()" *)
assert_opened(a) == IF a.kind = "False" THEN R(a.s, "AssertionError") ELSE a

(* "if not self.device_handle: assert self.open_handle()" *)
ensure_open(s, o) ==
  IF s.device_handle # None THEN R(s, "True") ELSE assert_opened(open_handle(s, o))

(* --------------------------- Firmware Loader --------------------------- *)

RECURSIVE upload(_, _, _, _)

(* upload_assert without its assert: a short write goes unnoticed. *)
upload_assert_unchecked(w, firmware, timeout, writes) ==
  IF w.kind = "USBError" THEN w
  ELSE upload(w.s, Tail(firmware), timeout, Tail(writes))

(* upload_assert closing the session before it fails. *)
upload_assert_closing(w, firmware, timeout, writes) ==
  IF w.kind = "USBError" THEN w
  ELSE IF w.v1[1] # Head(firmware).size
       THEN R(close_handle(w.s, FALSE, FALSE).s, "AssertionError")
  ELSE upload(w.s, Tail(firmware), timeout, Tail(writes))

(* flash_firmware: "assert bytes_written == packet.size", then the next packet *)
upload_assert(w, firmware, timeout, writes) ==
  IF w.kind = "USBError" THEN w
  ELSE IF w.v1[1] # Head(firmware).size THEN R(w.s, "AssertionError")
  ELSE upload(w.s, Tail(firmware), timeout, Tail(writes))

(* The loop of flash_firmware: one control write per packet, in order. *)
upload(s, firmware, timeout, writes) ==
  IF firmware = <<>> THEN R(s, "True")
  ELSE upload_assert(controlWrite(s, s.device_handle, UPLOAD_FIRMWARE_REQUEST,
                                  Head(firmware).value, UPLOAD_FIRMWARE_INDEX,
                                  Head(firmware).data, timeout, Head(writes)),
                     firmware, timeout, writes)

(* What the scope does once a firmware is written: it stays as it is, drops
   off the bus, or shows up again as a different device. *)
Reenumerate(s, written, reenum) ==
  IF ~written \/ reenum = "same" THEN s
  ELSE IF reenum = "gone" THEN [s EXCEPT !.bus = NoDevice]
  ELSE [s EXCEPT !.bus = [vid |-> VENDOR_ID, pid |-> MODEL_ID, addr |-> s.bus.addr + 1]]

(* flash_firmware: "self.open_handle()" with its result dropped, "return True" *)
flash_return(op) == IF op.kind = "USBError" THEN op ELSE R(op.s, "True")

(* flash_firmware: "self.setup()" with its result dropped, then open_handle *)
flash_open(c, o) == flash_return(open_handle(setup(c.s).s, o.open2))

(* flash_firmware from time.sleep(0.1) on: close_handle(release_interface=False)
   on the session as it is when the sleep ends, then setup and open_handle *)
flash_firmware_wake(s, written, o) ==
  flash_open(close_handle(Reenumerate(s, written, o.reenum), FALSE, FALSE), o)

(* flash_firmware: after the loop, time.sleep(0.1) *)
flash_sleep(u) == IF u.kind # "True" THEN u ELSE R(u.s, "sleep")

(* flash_firmware: the loop over the packets *)
flash_upload(a, firmware, timeout, o) ==
  IF a.kind # "True" THEN a
  ELSE flash_sleep(upload(a.s, firmware, timeout, o.writes))

(* Oscilloscope.flash_firmware, up to time.sleep(0.1) *)
flash_firmware(s, firmware, timeout, o) ==
  flash_upload(ensure_open(s, o.open1), firmware, timeout, o)

(* ----------------------------- Command Set ----------------------------- *)

(* assert_written accepting a short write. *)
assert_written_short(w, count) ==
  IF w.kind = "USBError" THEN w
  ELSE IF w.v1[1] > count THEN R(w.s, "AssertionError")
  ELSE R(w.s, "True")

(* assert_written closing the session before it fails. *)
assert_written_closing(w, count) ==
  IF w.kind = "USBError" THEN w
  ELSE IF w.v1[1] # count THEN R(close_handle(w.s, TRUE, FALSE).s, "AssertionError")
  ELSE R(w.s, "True")

(* "assert bytes_written == count", "return True" *)
assert_written(w, count) ==
  IF w.kind = "USBError" THEN w
  ELSE IF w.v1[1] # count THEN R(w.s, "AssertionError")
  ELSE R(w.s, "True")

(* get_calibration_values: "return map(ord, cal_string)" *)
get_calibration_return(r) ==
  IF r.kind = "USBError" THEN r ELSE [R(r.s, "list") EXCEPT !.v1 = map_ord(r.v1)]

(* get_calibration_values: the control read of 0x20 bytes *)
get_calibration_read(a, timeout, o) ==
  IF a.kind # "True" THEN a
  ELSE get_calibration_return(controlRead(a.s, a.s.device_handle, RW_CALIBRATION_REQUEST,
                                          RW_CALIBRATION_VALUE, RW_CALIBRATION_INDEX,
                                          32, timeout, o.x))

(* Oscilloscope.get_calibration_values *)
get_calibration_values(s, timeout, o) ==
  get_calibration_read(ensure_open(s, o.open), timeout, o)

(* set_calibration_values: the control write of the string, and its assert *)
set_calibration_write(a, str, timeout, o) ==
  IF a.kind # "True" THEN a
  ELSE assert_written(controlWrite(a.s, a.s.device_handle, RW_CALIBRATION_REQUEST,
                                   RW_CALIBRATION_VALUE, RW_CALIBRATION_INDEX,
                                   str, timeout, o.n),
                      Len(str))

(* Oscilloscope.set_calibration_values: a list of ints is joined to a string *)
set_calibration_values(s, cal_list, timeout, o) ==
  set_calibration_write(ensure_open(s, o.open),
                        IF cal_list.isstr THEN cal_list.v ELSE map_chr(cal_list.v),
                        timeout, o)

(* set_sample_rate_write, clamping the index to the last entry of SAMPLE_RATES. *)
set_sample_rate_write_clamped(a, rate_index, timeout, o) ==
  IF a.kind # "True" THEN a
  ELSE assert_written(controlWrite(a.s, a.s.device_handle, SET_SAMPLE_RATE_REQUEST,
                                   SET_SAMPLE_RATE_VALUE, SET_SAMPLE_RATE_INDEX,
                                   <<chr(IF rate_index > 27 THEN 27 ELSE rate_index)>>,
                                   timeout, o.n),
                      1)

(* set_sample_rate: the control write of chr(rate_index), and its assert *)
set_sample_rate_write(a, rate_index, timeout, o) ==
  IF a.kind # "True" THEN a
  ELSE assert_written(controlWrite(a.s, a.s.device_handle, SET_SAMPLE_RATE_REQUEST,
                                   SET_SAMPLE_RATE_VALUE, SET_SAMPLE_RATE_INDEX,
                                   <<chr(rate_index)>>, timeout, o.n),
                      1)

(* Oscilloscope.set_sample_rate *)
set_sample_rate(s, rate_index, timeout, o) ==
  set_sample_rate_write(ensure_open(s, o.open), rate_index, timeout, o)

(* set_ch1_voltage_range: the control write of chr(range_index), and its assert *)
set_ch1_voltage_range_write(a, range_index, timeout, o) ==
  IF a.kind # "True" THEN a
  ELSE assert_written(controlWrite(a.s, a.s.device_handle, SET_CH1_VR_REQUEST,
                                   SET_CH1_VR_VALUE, SET_CH1_VR_INDEX,
                                   <<chr(range_index)>>, timeout, o.n),
                      1)

(* Oscilloscope.set_ch1_voltage_range *)
set_ch1_voltage_range(s, range_index, timeout, o) ==
  set_ch1_voltage_range_write(ensure_open(s, o.open), range_index, timeout, o)

(* set_ch2_voltage_range: the control write of chr(range_index), and its assert *)
set_ch2_voltage_range_write(a, range_index, timeout, o) ==
  IF a.kind # "True" THEN a
  ELSE assert_written(controlWrite(a.s, a.s.device_handle, SET_CH2_VR_REQUEST,
                                   SET_CH2_VR_VALUE, SET_CH2_VR_INDEX,
                                   <<chr(range_index)>>, timeout, o.n),
                      1)

(* Oscilloscope.set_ch2_voltage_range *)
set_ch2_voltage_range(s, range_index, timeout, o) ==
  set_ch2_voltage_range_write(ensure_open(s, o.open), range_index, timeout, o)

(* -------------------------- Acquisition Reader ------------------------- *)

(* odds, returning the even-indexed bytes once more. *)
odds_as_evens(data) == [i \in 1..(Len(data) \div 2) |-> data[2 * i - 1]]

(* data[::2] and data[1::2] *)
evens(data) == [i \in 1..((Len(data) + 1) \div 2) |-> data[2 * i - 1]]
odds(data) == [i \in 1..(Len(data) \div 2) |-> data[2 * i]]

(* "return data[::2], data[1::2]", or the same through map(ord, ...) *)
split(b, raw) ==
  IF b.kind = "USBError" THEN b
  ELSE IF raw THEN [R(b.s, "strs") EXCEPT !.v1 = evens(b.v1), !.v2 = odds(b.v1)]
  ELSE [R(b.s, "lists") EXCEPT !.v1 = map_ord(evens(b.v1)), !.v2 = map_ord(odds(b.v1))]

(* The bulk read on endpoint 0x86, once the arm control read has returned. *)
bulk(arm, h, size, raw, timeout, o) ==
  IF arm.kind = "USBError" THEN arm
  ELSE split(bulkRead(arm.s, h, 134, size, timeout, o.bulk), raw)

(* acquire without "data_size <<= 1". *)
acquire_undoubled(s, h, data_size, raw, timeout, o) ==
  bulk(controlRead(s, h, 227, 0, 0, 1, timeout, o.arm), h, data_size, raw, timeout, o)

(* The transfers of read_data: data_size <<= 1, the arm control read, the bulk
   read, the split. *)
acquire(s, h, data_size, raw, timeout, o) ==
  bulk(controlRead(s, h, 227, 0, 0, 1, timeout, o.arm), h, data_size * 2, raw, timeout, o)

(* read_data: the transfers, on the session's handle *)
read_data_on(a, data_size, raw, timeout, o) ==
  IF a.kind # "True" THEN a
  ELSE acquire(a.s, a.s.device_handle, data_size, raw, timeout, o)

(* Oscilloscope.read_data *)
read_data(s, data_size, raw, timeout, o) ==
  read_data_on(ensure_open(s, o.open), data_size, raw, timeout, o)

(* build_data_reader: the closure is bound to the handle's controlRead and
   bulkRead *)
build_data_reader_bind(a) ==
  IF a.kind # "True" THEN a
  ELSE [R(a.s, "reader") EXCEPT !.v1 = <<a.s.device_handle>>]

(* Oscilloscope.build_data_reader *)
build_data_reader(s, raw, o) == build_data_reader_bind(ensure_open(s, o))

(* The closure of the non-raw branch, returning the byte strings unconverted. *)
fast_split_unconverted(b, raw) ==
  IF b.kind = "USBError" THEN b
  ELSE [R(b.s, "strs") EXCEPT !.v1 = evens(b.v1), !.v2 = odds(b.v1)]

(* The return statement of the closure: "data[::2], data[1::2]" in the one
   build_data_reader defines when raw, the same through map(ord, ...) in the
   other. *)
fast_split(b, raw) ==
  IF b.kind = "USBError" THEN b
  ELSE IF raw THEN [R(b.s, "strs") EXCEPT !.v1 = evens(b.v1), !.v2 = odds(b.v1)]
  ELSE [R(b.s, "lists") EXCEPT !.v1 = map_ord(evens(b.v1)), !.v2 = map_ord(odds(b.v1))]

(* scope_bulk_read(0x86, data_size, timeout), once scope_control_read returned *)
fast_bulk(arm, rd, size, timeout, o) ==
  IF arm.kind = "USBError" THEN arm
  ELSE fast_split(bulkRead(arm.s, rd.h, 134, size, timeout, o.bulk), rd.raw)

(* fast_read_data, looking the handle up on the session at each call. *)
fast_read_data_unbound(s, rd, data_size, timeout, o) ==
  fast_bulk(controlRead(s, s.device_handle, 227, 0, 0, 1, timeout, o.arm),
            [rd EXCEPT !.h = s.device_handle], data_size * 2, timeout, o)

(* fast_read_data, the closure build_data_reader returned: data_size <<= 1,
   then the two transfers through the bound methods of the handle rd.h *)
fast_read_data(s, rd, data_size, timeout, o) ==
  fast_bulk(controlRead(s, rd.h, 227, 0, 0, 1, timeout, o.arm), rd, data_size * 2,
            timeout, o)

(* ------------------------------ the state ------------------------------ *)
Session == [context |-> context, device |-> device, device_handle |-> device_handle,
            bus |-> bus, handles |-> handles, calls |-> <<>>]

BusDevices == {NoDevice,
               [vid |-> VENDOR_ID, pid |-> MODEL_ID, addr |-> 1],
               [vid |-> ALT_VENDOR_ID, pid |-> MODEL_ID, addr |-> 1],
               [vid |-> OTHER_VENDOR_ID, pid |-> MODEL_ID, addr |-> 1],
               [vid |-> VENDOR_ID, pid |-> OTHER_MODEL_ID, addr |-> 1]}

Ret(r) == [kind |-> r.kind, v1 |-> r.v1, v2 |-> r.v2]

(* The method returned r: the session, the call log and the result are set. *)
Done(r, op) ==
  /\ context' = r.s.context
  /\ device' = r.s.device
  /\ device_handle' = r.s.device_handle
  /\ bus' = r.s.bus
  /\ handles' = r.s.handles
  /\ calls' = r.s.calls
  /\ ret' = Ret(r)
  /\ last' = op
  /\ pre' = Session

Op(name) == [op |-> name, raw |-> FALSE, n |-> 0, timeout |-> 0, data |-> <<>>, fw |-> <<>>,
             arg |-> <<>>]

(* The outcomes of an open that matter: none when the session is open. *)
AutoOpen == IF device_handle = None THEN OpenOutcomes ELSE {"ok"}

(* Oscilloscope.__init__ *)
Init ==
  /\ context = "None"
  /\ device = NoDevice
  /\ device_handle = None
  /\ bus \in BusDevices
  /\ handles = <<>>
  /\ reader = NoReader
  /\ sleeping = <<>>
  /\ calls = <<>>
  /\ ret = [kind |-> "True", v1 |-> <<>>, v2 |-> <<>>]
  /\ last = Op("__init__")
  /\ pre = [context |-> "None", device |-> NoDevice, device_handle |-> None,
            bus |-> bus, handles |-> <<>>, calls |-> <<>>]

Setup ==
  /\ Done(setup(Session), Op("setup"))
  /\ UNCHANGED <<reader, sleeping>>

Open ==
  /\ Len(handles) < MaxHandles
  /\ \E o \in AutoOpen : Done(open_handle(Session, o), Op("open_handle"))
  /\ UNCHANGED <<reader, sleeping>>

Close ==
  /\ \E release_interface \in BOOLEAN, fails \in BOOLEAN :
       Done(close_handle(Session, release_interface, fails),
            [Op("close_handle") EXCEPT !.raw = release_interface])
  /\ UNCHANGED <<reader, sleeping>>

(* ------------------------------ the inputs ----------------------------- *)
Timeouts == {60}

Packet(value, data) == [value |-> value, data |-> map_chr(data), size |-> Len(data)]

(* Firmware images: none, one and two packets (the stock image starts by
   writing 1 to the CPU control register 0xe600 and ends by writing 0). *)
Firmwares == {<<>>,
              <<Packet(58880, <<1>>)>>,
              <<Packet(58880, <<1>>), Packet(0, <<2, 116>>)>>}

(* What a write of len bytes can report: an error (-1), or a byte count. *)
WriteCounts(len) == {-1, len, len + 1} \cup (IF len > 0 THEN {len - 1} ELSE {})

(* The outcomes of the packet writes: every packet up to the k-th transfers its
   declared size, the k-th reports n, and no later packet is reached (k = 0:
   every packet transfers its declared size). *)
Writes(firmware, k, n) ==
  [i \in 1..Len(firmware) |-> IF i = k THEN n ELSE firmware[i].size]

FailedWrites(firmware) ==
  UNION {{Writes(firmware, k, n) : n \in WriteCounts(firmware[k].size) \ {firmware[k].size}} :
         k \in 1..Len(firmware)}

(* The outcomes of the open a method starts with on a closed session: those that
   raise, and those that raise nothing. *)
OpensOk == AutoOpen \cap {"ok", "ok_detach"}
OpensErr == AutoOpen \ OpensOk

(* The outcomes of a command with one control write of len bytes: the write is
   reached only when the open raised nothing. *)
WriteOutcomes(len) ==
  {[open |-> op, n |-> len] : op \in OpensErr} \cup
  {[open |-> op, n |-> n] : op \in OpensOk, n \in WriteCounts(len)}

(* The outcomes of a flash up to its sleep: of the open it starts with and of
   the packet writes.  A call that is not reached has one outcome. *)
UploadOutcomes(firmware) ==
  [open1 : OpensErr, writes : {Writes(firmware, 0, 0)}]
  \cup [open1 : OpensOk, writes : FailedWrites(firmware) \cup {Writes(firmware, 0, 0)}]

(* The outcomes of a flash once its sleep is over: of the re-enumeration, and
   of the open it ends with. *)
WakeOutcomes ==
  [reenum : {"same", "gone"} \cup (IF bus.addr < MaxAddr THEN {"new"} ELSE {}),
   open2 : OpenOutcomes]

Buffer(len, start) == [i \in 1..len |-> chr((start + i - 1) % 256)]

ReadOutcomes(lens) ==
  {[err |-> TRUE, data |-> <<>>]} \cup
  {[err |-> FALSE, data |-> Buffer(len, 254)] : len \in lens}

CalLists == {[isstr |-> b, v |-> Buffer(len, 254)] : b \in {TRUE}, len \in 0..MaxCal} \cup
            {[isstr |-> b, v |-> map_ord(Buffer(len, 254))] : b \in {FALSE}, len \in 0..MaxCal}

RateIndices == {27, 28}
RangeCodes == {1, 8}

CalReadOutcomes ==
  {[open |-> op, x |-> [err |-> TRUE, data |-> <<>>]] : op \in OpensErr} \cup
  {[open |-> op, x |-> x] : op \in OpensOk, x \in ReadOutcomes({31, 32})}

(* How many handles a method may open. *)
Room(k) == Len(handles) + k <= MaxHandles

(* flash_firmware is called: it runs up to time.sleep(0.1), unless it raises
   before. *)
Flash ==
  /\ Len(sleeping) < MaxSleeping
  /\ Room(IF device_handle = None THEN 2 ELSE 1)
  /\ \E firmware \in Firmwares, timeout \in {60} :
       \E o \in UploadOutcomes(firmware) :
         LET r == flash_firmware(Session, firmware, timeout, o) IN
         /\ Done(r, [Op("flash_firmware") EXCEPT !.fw = firmware, !.timeout = timeout])
         /\ sleeping' = IF r.kind = "sleep"
                         THEN Append(sleeping, [written |-> firmware # <<>>])
                         ELSE sleeping
  /\ UNCHANGED reader

(* A sleep of flash_firmware ends: the method runs to its return.  The calls of
   other methods made during the sleep lie between the two steps. *)
FlashWake ==
  /\ Room(1)
  /\ \E i \in DOMAIN sleeping :
       \E o \in WakeOutcomes :
         /\ Done(flash_firmware_wake(Session, sleeping[i].written, o),
                 [Op("flash_firmware") EXCEPT !.arg = <<"wake">>])
         /\ sleeping' = [j \in 1..(Len(sleeping) - 1) |->
                           IF j < i THEN sleeping[j] ELSE sleeping[j + 1]]
  /\ UNCHANGED reader

GetCalibration ==
  /\ Room(1)
  /\ \E timeout \in Timeouts :
       \E o \in CalReadOutcomes :
       Done(get_calibration_values(Session, timeout, o),
            [Op("get_calibration_values") EXCEPT !.timeout = timeout])
  /\ UNCHANGED <<reader, sleeping>>

SetCalibration ==
  /\ Room(1)
  /\ \E cal_list \in CalLists, timeout \in Timeouts :
       \E o \in WriteOutcomes(Len(cal_list.v)) :
       Done(set_calibration_values(Session, cal_list, timeout, o),
            [Op("set_calibration_values") EXCEPT !.data = cal_list.v, !.raw = cal_list.isstr,
                                                 !.timeout = timeout])
  /\ UNCHANGED <<reader, sleeping>>

SetSampleRate ==
  /\ Room(1)
  /\ \E rate_index \in RateIndices, timeout \in Timeouts :
       \E o \in WriteOutcomes(1) :
       Done(set_sample_rate(Session, rate_index, timeout, o),
            [Op("set_sample_rate") EXCEPT !.n = rate_index, !.timeout = timeout])
  /\ UNCHANGED <<reader, sleeping>>

SetCh1VoltageRange ==
  /\ Room(1)
  /\ \E range_index \in RangeCodes, timeout \in Timeouts :
       \E o \in WriteOutcomes(1) :
       Done(set_ch1_voltage_range(Session, range_index, timeout, o),
            [Op("set_ch1_voltage_range") EXCEPT !.n = range_index, !.timeout = timeout])
  /\ UNCHANGED <<reader, sleeping>>

SetCh2VoltageRange ==
  /\ Room(1)
  /\ \E range_index \in RangeCodes, timeout \in Timeouts :
       \E o \in WriteOutcomes(1) :
       Done(set_ch2_voltage_range(Session, range_index, timeout, o),
            [Op("set_ch2_voltage_range") EXCEPT !.n = range_index, !.timeout = timeout])
  /\ UNCHANGED <<reader, sleeping>>

(* The outcomes of the two transfers of an acquisition: the bulk read is
   reached only when the arm control read raised nothing. *)
TransferOutcomes(data_size) ==
  LET arms == ReadOutcomes({1})
      bulks == ReadOutcomes({2 * data_size, 2 * data_size + 1} \cup
                            (IF data_size > 0 THEN {2 * data_size - 1} ELSE {}))
  IN [arm : {x \in arms : x.err}, bulk : {x \in bulks : x.err}]
     \cup [arm : {x \in arms : ~x.err}, bulk : bulks]

(* The outcomes of read_data: of the open it starts with on a closed session,
   and of the transfers, reached only when the open raised nothing. *)
AcquireOutcomes(data_size) ==
  LET xfers == TransferOutcomes(data_size)
      failed == CHOOSE x \in xfers : x.arm.err
  IN {[open |-> op, arm |-> failed.arm, bulk |-> failed.bulk] : op \in OpensErr} \cup
     {[open |-> op, arm |-> x.arm, bulk |-> x.bulk] : op \in OpensOk, x \in xfers}

ReadData ==
  /\ Room(1)
  /\ \E data_size \in 0..MaxPoints, raw \in BOOLEAN, timeout \in Timeouts :
       \E o \in AcquireOutcomes(data_size) :
         Done(read_data(Session, data_size, raw, timeout, o),
              [Op("read_data") EXCEPT !.n = data_size, !.raw = raw, !.timeout = timeout])
  /\ UNCHANGED <<reader, sleeping>>

BuildDataReader ==
  /\ Room(1)
  /\ \E raw \in BOOLEAN, op \in AutoOpen :
       LET r == build_data_reader(Session, raw, op) IN
       /\ Done(r, [Op("build_data_reader") EXCEPT !.raw = raw])
       /\ reader' = IF r.kind = "reader" THEN [h |-> r.v1[1], raw |-> raw] ELSE reader
  /\ UNCHANGED sleeping

FastReadData ==
  /\ reader # NoReader
  /\ \E data_size \in 0..MaxPoints, timeout \in Timeouts :
       \E o \in TransferOutcomes(data_size) :
         Done(fast_read_data(Session, reader, data_size, timeout, o),
              [Op("fast_read_data") EXCEPT !.n = data_size, !.raw = reader.raw,
                                           !.timeout = timeout])
  /\ UNCHANGED <<reader, sleeping>>

Next ==
  \/ Setup \/ Open \/ Close \/ Flash \/ FlashWake
  \/ GetCalibration \/ SetCalibration
  \/ SetSampleRate \/ SetCh1VoltageRange \/ SetCh2VoltageRange
  \/ ReadData \/ BuildDataReader \/ FastReadData

Spec == Init /\ [][Next]_vars

(* ------------------------------ the claims ----------------------------- *)
IsTransfer(c) == c.fn \in {"controlWrite", "controlRead", "bulkRead"}
IsDiscovery(c) == c.fn = "getByVendorIDAndProductID"
Matching(b) == b.vid \in {VENDOR_ID, ALT_VENDOR_ID} /\ b.pid = MODEL_ID
NoErrors == \A i \in DOMAIN calls : ~calls[i].err

WriteCommands == {"set_calibration_values", "set_sample_rate",
                  "set_ch1_voltage_range", "set_ch2_voltage_range"}
Commands == WriteCommands \cup {"get_calibration_values", "read_data", "build_data_reader"}

(* The session after the last method is the session before it. *)
SessionUnchanged ==
  /\ context = pre.context
  /\ device = pre.device
  /\ device_handle = pre.device_handle
  /\ handles = pre.handles
  /\ bus = pre.bus

(* C1: open_handle on a session with no handle and no candidate device, while
   a matching device is enumerable, runs the discovery itself and does not
   return False; when no transport call raises it returns True and leaves the
   session with a handle. *)
C1_OpenDiscovers ==
  (/\ last.op = "open_handle"
   /\ pre.device_handle = None
   /\ pre.device = NoDevice
   /\ Matching(pre.bus)) =>
    /\ \E i \in DOMAIN calls : IsDiscovery(calls[i])
    /\ ret.kind # "False"
    /\ NoErrors => (ret.kind = "True" /\ device_handle # None)

(* C2: whenever flash_firmware returns True the session holds an open handle,
   with interface 0 claimed, on the device the bus enumerates. *)
C2_FlashLeavesOpen ==
  (last.op = "flash_firmware" /\ ret.kind = "True") =>
    /\ device_handle # None
    /\ handles[device_handle].open
    /\ handles[device_handle].claimed
    /\ bus # NoDevice
    /\ handles[device_handle].dev = bus.addr

(* The firmware writes of the last method, and the packet each one carries. *)
IsUploadWrite(i) == calls[i].fn = "controlWrite" /\ calls[i].args[2] = UPLOAD_FIRMWARE_REQUEST
PacketNo(i) == Cardinality({j \in 1..i : IsUploadWrite(j)})
Mismatch(i) ==
  /\ last.op = "flash_firmware"
  /\ IsUploadWrite(i)
  /\ ~calls[i].err
  /\ calls[i].n # last.fw[PacketNo(i)].size

(* C3: a packet write of flash_firmware that transfers a byte count other than
   the packet's declared size ends the upload with an AssertionError and is the
   last transport call of the method: no later packet is written, and no close,
   discovery or open follows. *)
C3_MismatchAborts ==
  \A i \in DOMAIN calls : Mismatch(i) => (ret.kind = "AssertionError" /\ i = Len(calls))

(* C3 witness: the first packet of a two-packet image is written short. *)
C3_Witness ==
  /\ Len(calls) > 0
  /\ Mismatch(Len(calls))
  /\ PacketNo(Len(calls)) = 1
  /\ Len(last.fw) = 2

(* C4 as claimed: after an upload aborted by a length mismatch the session has
   no open handle. *)
C4_AbortLeavesClosed ==
  (\E i \in DOMAIN calls : Mismatch(i)) => device_handle = None

(* C4 as amended: after an upload aborted by a length mismatch the session is
   still open on the handle the packets were written on; that handle is
   neither closed nor released, and a session that was open when flash was
   called is left exactly as it was. *)
C4_AbortLeavesOpen ==
  \A i \in DOMAIN calls : Mismatch(i) =>
    /\ device_handle # None
    /\ device_handle = calls[i].h
    /\ handles[device_handle].open
    /\ \A j \in DOMAIN calls : calls[j].fn \notin {"close", "releaseInterface"}
    /\ pre.device_handle # None => SessionUnchanged

(* C4 witness: the upload aborted on a session that flash itself had opened. *)
C4_Witness ==
  /\ Len(calls) > 0
  /\ Mismatch(Len(calls))
  /\ pre.device_handle = None
  /\ ret.kind = "AssertionError"

(* C5: a session that holds a handle holds it with interface 0 claimed. *)
C5_HandleImpliesClaimed ==
  device_handle # None => handles[device_handle].claimed

(* C6: close_handle on a session with no handle returns True, issues no
   transport call and leaves the session as it was; and a close_handle that
   returned True leaves no handle, so that the next one is such a call. *)
C6_CloseIdempotent ==
  /\ (last.op = "close_handle" /\ pre.device_handle = None) =>
       (ret.kind = "True" /\ calls = <<>> /\ SessionUnchanged)
  /\ (last.op = "close_handle" /\ ret.kind = "True") => device_handle = None

(* C6 witness: a close_handle on a session whose handle was closed before. *)
C6_Witness ==
  /\ last.op = "close_handle"
  /\ pre.device_handle = None
  /\ \E h \in DOMAIN handles : ~handles[h].open
  /\ ret.kind = "True"

(* C7: close_handle on a session that holds a handle always ends with the
   handle closed and device_handle cleared; with release_interface the release
   of interface 0 is issued before the close, and without it no release is. *)
C7_CloseAlwaysCloses ==
  (last.op = "close_handle" /\ pre.device_handle # None) =>
    /\ device_handle = None
    /\ ~handles[pre.device_handle].open
    /\ \E i \in DOMAIN calls : calls[i].fn = "close" /\ calls[i].h = pre.device_handle
    /\ last.raw => \E i, j \in DOMAIN calls :
                     /\ i < j
                     /\ calls[i].fn = "releaseInterface"
                     /\ calls[j].fn = "close"
    /\ ~last.raw => \A i \in DOMAIN calls : calls[i].fn # "releaseInterface"

(* C8: a command called on a session with no handle starts with the calls of
   open_handle; when that open_handle returns False the command raises an
   AssertionError, having issued no control or bulk transfer, and the session
   still has no handle. *)
C8_ClosedCommandFails ==
  (last.op \in Commands /\ pre.device_handle = None) =>
    /\ \E o \in OpenOutcomes :
         LET a == open_handle(pre, o)
         IN /\ Len(a.s.calls) <= Len(calls)
            /\ a.s.calls = SubSeq(calls, 1, Len(a.s.calls))
    /\ open_handle(pre, "ok").kind = "False" =>
         /\ ret.kind = "AssertionError"
         /\ calls = open_handle(pre, "ok").s.calls
         /\ \A i \in DOMAIN calls : ~IsTransfer(calls[i])
         /\ device_handle = None

(* C8 witness: a read_data on a session with no handle and no candidate. *)
C8_Witness ==
  /\ last.op = "read_data"
  /\ pre.device_handle = None
  /\ open_handle(pre, "ok").kind = "False"
  /\ ret.kind = "AssertionError"

(* The byte count a control-write command requires. *)
Required == IF last.op = "set_calibration_values" THEN Len(last.data) ELSE 1

(* C9: a control-write command on an open session issues exactly one transport
   call, a control write on the session's handle; it returns True exactly when
   the write transferred the required byte count, and raises an AssertionError
   on any other count. *)
C9_WriteCommandChecksCount ==
  (last.op \in WriteCommands /\ pre.device_handle # None) =>
    /\ Len(calls) = 1
    /\ calls[1].fn = "controlWrite"
    /\ calls[1].h = pre.device_handle
    /\ ret.kind = "True" <=> (~calls[1].err /\ calls[1].n = Required)
    /\ (~calls[1].err /\ calls[1].n # Required) => ret.kind = "AssertionError"
    /\ calls[1].err => ret.kind = "USBError"

(* C9 witness: set_calibration_values on an open session with a short write. *)
C9_Witness ==
  /\ last.op = "set_calibration_values"
  /\ pre.device_handle # None
  /\ Len(last.data) > 0
  /\ ~calls[1].err
  /\ calls[1].n < Len(last.data)
  /\ ret.kind = "AssertionError"

(* The two transfers of read_data. *)
IsArm(c) ==
  /\ c.fn = "controlRead"
  /\ c.h = pre.device_handle
  /\ c.args = <<64, 227, 0, 0, 1, last.timeout>>
IsBulk(c) ==
  /\ c.fn = "bulkRead"
  /\ c.h = pre.device_handle
  /\ c.args = <<134, 2 * last.n, last.timeout>>

(* C10 as claimed: read_data on an open session issues exactly the arm control
   read and then the bulk read of 2 * data_size bytes on endpoint 0x86. *)
C10_ArmThenBulkAlways ==
  (last.op = "read_data" /\ pre.device_handle # None) =>
    /\ Len(calls) = 2
    /\ IsArm(calls[1])
    /\ IsBulk(calls[2])

(* C10 as amended: read_data on an open session issues the arm control read
   first; when the arm raises, the call ends there with that error and no bulk
   read is issued; otherwise exactly one bulk read of 2 * data_size bytes on
   endpoint 0x86 follows, and nothing else is transferred. *)
C10_ArmThenBulk ==
  (last.op = "read_data" /\ pre.device_handle # None) =>
    /\ Len(calls) >= 1
    /\ IsArm(calls[1])
    /\ calls[1].err => (Len(calls) = 1 /\ ret.kind = "USBError")
    /\ ~calls[1].err => (Len(calls) = 2 /\ IsBulk(calls[2]))

(* C10 witness: a read_data of MaxPoints points that reached its bulk read. *)
C10_Witness ==
  /\ last.op = "read_data"
  /\ pre.device_handle # None
  /\ last.n = MaxPoints
  /\ Len(calls) = 2
  /\ ret.kind \in {"strs", "lists"}

(* C11: a read_data that returns a result returns two channels of exactly
   data_size samples each; a bulk read that delivers another byte count than
   2 * data_size never yields a result. *)
C11_ReadReturnsNumPoints ==
  last.op = "read_data" =>
    /\ ret.kind \in {"strs", "lists"} => (Len(ret.v1) = last.n /\ Len(ret.v2) = last.n)
    /\ \A i \in DOMAIN calls :
         (calls[i].fn = "bulkRead" /\ ~calls[i].err /\ calls[i].n # 2 * last.n) =>
           ret.kind \in {"AssertionError", "USBError"}

(* C12: get_calibration_values on an open session issues one control read of
   0x20 bytes (request 0xa2, value 0x08, index 0) and returns the 32 byte values
   in device order; a read that delivers another byte count raises. *)
C12_CalibrationReads32 ==
  (last.op = "get_calibration_values" /\ pre.device_handle # None) =>
    /\ Len(calls) = 1
    /\ calls[1].fn = "controlRead"
    /\ calls[1].h = pre.device_handle
    /\ calls[1].args = <<64, RW_CALIBRATION_REQUEST, RW_CALIBRATION_VALUE,
                         RW_CALIBRATION_INDEX, 32, last.timeout>>
    /\ ret.kind = "list" => (Len(ret.v1) = 32 /\ ret.v1 = map_ord(calls[1].rdata))
    /\ (~calls[1].err /\ calls[1].n # 32) => ret.kind = "AssertionError"

(* ---------------------- the data path, on its own ---------------------- *)
(* The demultiplexing of read_data, the time axis and the scaling are checked
   on inputs drawn from small sets, in a specification of their own. *)
MaxBuf == 4
SampleBytes == {0, 255}

(* The buffers a bulk read can deliver. *)
Buffers == UNION {[1..len -> {chr(b) : b \in SampleBytes}] : len \in 0..MaxBuf}

(* read_data's last statements, on a buffer the bulk read delivered *)
Demux ==
  /\ \E data \in Buffers, raw \in BOOLEAN :
       Done(split([R(Session, "str") EXCEPT !.v1 = data], raw),
            [Op("split") EXCEPT !.data = data, !.raw = raw])
  /\ UNCHANGED <<reader, sleeping>>

MaxTimes == 3

(* Oscilloscope.SAMPLE_RATES: the label and the rate, in samples per second *)
SAMPLE_RATES ==
  [i \in 0..27 |->
     CASE i \in 0..10 -> [label |-> "48 MS/s", rate |-> 48000000]
       [] i = 11 -> [label |-> "16 MSa/s", rate |-> 16000000]
       [] i = 12 -> [label |-> "8 MSa/s", rate |-> 8000000]
       [] i = 13 -> [label |-> "4 MSa/s", rate |-> 4000000]
       [] i \in 14..24 -> [label |-> "1 MS/s", rate |-> 1000000]
       [] i = 25 -> [label |-> "500 KSa/s", rate |-> 500000]
       [] i = 26 -> [label |-> "200 KSa/s", rate |-> 200000]
       [] i = 27 -> [label |-> "100 KSa/s", rate |-> 100000]]

(* SAMPLE_RATES.get(rate_index, ("? MS/s", 1.0)) *)
SAMPLE_RATES_get(rate_index) ==
  IF rate_index \in DOMAIN SAMPLE_RATES THEN SAMPLE_RATES[rate_index]
  ELSE [label |-> "? MS/s", rate |-> 1]

(* The quotient of the float division num / den, kept as the fraction. *)
Div(num, den) == [num |-> num, den |-> den]

(* The time axis, counting from 1: [i/rate for i in xrange(1, num_points + 1)]. *)
times_from_one(e, num_points) == [i \in 1..num_points |-> Div(i, e.rate)]

(* [i/rate for i in xrange(num_points)] *)
times(e, num_points) == [i \in 1..num_points |-> Div(i - 1, e.rate)]

(* Oscilloscope.convert_sampling_rate_to_measurement_times: the list of times
   and the label *)
convert_sampling_rate_to_measurement_times(s, num_points, rate_index) ==
  [R(s, "times") EXCEPT !.v1 = times(SAMPLE_RATES_get(rate_index), num_points),
                        !.v2 = <<SAMPLE_RATES_get(rate_index).label>>]

SampleTimes ==
  /\ \E num_points \in 0..MaxTimes, rate_index \in 0..28 \cup {255} :
       Done(convert_sampling_rate_to_measurement_times(Session, num_points, rate_index),
            [Op("convert_sampling_rate_to_measurement_times")
               EXCEPT !.n = num_points, !.data = <<rate_index>>])
  /\ UNCHANGED <<reader, sleeping>>

(* A number a caller passes: an int, or a float num / den. *)
IntArg(n) == [isfloat |-> FALSE, num |-> n, den |-> 1]
FloatArg(num, den) == [isfloat |-> TRUE, num |-> num, den |-> den]

(* Oscilloscope.VOLTAGE_RANGES: the label, the scale factor and the half-range
   in volts of a range code *)
VOLTAGE_RANGES ==
  [code \in {1, 2, 5, 10} |->
     CASE code = 1 -> [label |-> "+/- 5V", scale |-> FloatArg(5, 128), half |-> FloatArg(5, 2)]
       [] code = 2 -> [label |-> "+/- 2.5V", scale |-> FloatArg(5, 256), half |-> FloatArg(5, 4)]
       [] code = 5 -> [label |-> "+/- 1V", scale |-> FloatArg(1, 128), half |-> FloatArg(1, 2)]
       [] code = 10 -> [label |-> "+/- 500mV", scale |-> FloatArg(1, 256), half |-> FloatArg(1, 4)]]

(* The scale factor without the shift: (5.0 * probe_multiplier) / voltage_range. *)
scale_factor_unshifted(voltage_range, probe_multiplier) ==
  Div(5 * probe_multiplier, voltage_range.num)

(* (5.0 * probe_multiplier) / (voltage_range << 7), voltage_range a nonzero int *)
scale_factor(voltage_range, probe_multiplier) ==
  Div(5 * probe_multiplier, voltage_range.num * 128)

(* (datum - 128) * scale_factor *)
scaled(datum, factor) == Div((datum - 128) * factor.num, factor.den)

(* Oscilloscope.scale_read_data: "<<" raises a TypeError on a float, the
   division a ZeroDivisionError on 0 << 7 *)
scale_read_data(s, data, voltage_range, probe_multiplier) ==
  IF voltage_range.isfloat THEN R(s, "TypeError")
  ELSE IF voltage_range.num = 0 THEN R(s, "ZeroDivisionError")
  ELSE [R(s, "volts") EXCEPT
          !.v1 = [i \in 1..Len(data) |->
                    scaled(data[i], scale_factor(voltage_range, probe_multiplier))]]

(* The lists of points scaled: none, the midpoint, and every byte in order. *)
PointLists == {<<>>, <<128>>, [i \in 1..256 |-> i - 1]}

(* The ranges passed: range codes, in and out of VOLTAGE_RANGES, and the
   half-ranges of VOLTAGE_RANGES. *)
RangeArgs ==
  {IntArg(code) : code \in {0, 1, 2, 5, 8, 10}} \cup
  {VOLTAGE_RANGES[code].half : code \in DOMAIN VOLTAGE_RANGES}

Scale ==
  /\ \E data \in PointLists, voltage_range \in RangeArgs, probe_multiplier \in {1, 10} :
       Done(scale_read_data(Session, data, voltage_range, probe_multiplier),
            [Op("scale_read_data") EXCEPT !.data = data, !.arg = voltage_range,
                                          !.n = probe_multiplier])
  /\ UNCHANGED <<reader, sleeping>>

NextPure == Setup \/ Open \/ Close \/ Demux \/ SampleTimes \/ Scale

SpecPure == Init /\ [][NextPure]_vars

(* ch1[0], ch2[0], ch1[1], ch2[1], ... *)
Interleave(ch1, ch2) ==
  [i \in 1..(Len(ch1) + Len(ch2)) |->
     IF i % 2 = 1 THEN ch1[(i + 1) \div 2] ELSE ch2[i \div 2]]

(* C13: for every even-length buffer, channel 1 is the even-indexed bytes
   (0-based) and channel 2 the odd-indexed bytes, in order, and interleaving
   the two channels byte by byte gives the buffer back. *)
C13_DemuxBijection ==
  (last.op = "split" /\ Len(last.data) % 2 = 0) =>
    /\ ret.kind = IF last.raw THEN "strs" ELSE "lists"
    /\ Len(ret.v1) = Len(last.data) \div 2
    /\ Len(ret.v2) = Len(last.data) \div 2
    /\ \A i \in 1..(Len(last.data) \div 2) :
         /\ ret.v1[i] = IF last.raw THEN last.data[2 * i - 1] ELSE ord(last.data[2 * i - 1])
         /\ ret.v2[i] = IF last.raw THEN last.data[2 * i] ELSE ord(last.data[2 * i])
    /\ last.data = IF last.raw THEN Interleave(ret.v1, ret.v2)
                   ELSE map_chr(Interleave(ret.v1, ret.v2))

C13_Witness ==
  /\ last.op = "split"
  /\ ~last.raw
  /\ last.data = <<chr(0), chr(255), chr(255), chr(0)>>
  /\ ret.v1 = <<0, 255>>
  /\ ret.v2 = <<255, 0>>

(* The response of the device to the i-th transfer of the last call, read off
   the call log; a transfer that was not reached has the one outcome the
   inputs give it. *)
Response(i) ==
  IF i <= Len(calls) THEN [err |-> calls[i].err, data |-> calls[i].rdata]
  ELSE [err |-> TRUE, data |-> <<>>]

(* read_data on the session as it was before the last call, with the flag, the
   number of points, the timeout and the device responses of that call. *)
SameRead ==
  read_data(pre, last.n, last.raw, last.timeout,
            [open |-> "ok", arm |-> Response(1), bulk |-> Response(2)])

(* C14: on a session that is still open on the handle the fast reader was built
   on, a call of the fast reader issues the transport calls read_data issues
   for the same raw flag, num_points, timeout and device responses (the arm
   control read, then the bulk read of 2 * num_points bytes on 0x86), returns
   what read_data returns, and leaves the session as read_data leaves it. *)
C14_FastReaderIsRead ==
  (last.op = "fast_read_data" /\ pre.device_handle # None
     /\ reader.h = pre.device_handle) =>
    /\ calls = SameRead.s.calls
    /\ ret = Ret(SameRead)
    /\ Session = [SameRead.s EXCEPT !.calls = <<>>]

C14_Witness ==
  /\ last.op = "fast_read_data"
  /\ pre.device_handle # None
  /\ reader.h = pre.device_handle
  /\ ~last.raw
  /\ last.n = 1
  /\ ret.kind = "lists"
  /\ Len(ret.v1) = 1
  /\ Len(ret.v2) = 1
  /\ Len(calls) = 2
  /\ calls[2].args = <<134, 2, last.timeout>>

(* The request code of a one-byte setting command. *)
SettingRequest ==
  IF last.op = "set_sample_rate" THEN 226
  ELSE IF last.op = "set_ch1_voltage_range" THEN 224 ELSE 225

(* C15: set_sample_rate and set_ch1/ch2_voltage_range validate nothing: on an
   open session the command issues one control write whose one-byte payload is
   exactly the byte it was given, whether or not the byte is in the Sample Rate
   Table or the Voltage Range Table, and returns True when the device took the
   byte; on a closed session, every control write it issues carries that
   payload. *)
C15_SettingPassedThrough ==
  last.op \in {"set_sample_rate", "set_ch1_voltage_range", "set_ch2_voltage_range"} =>
    /\ \A i \in DOMAIN calls :
         calls[i].fn = "controlWrite" =>
           /\ calls[i].data = <<chr(last.n)>>
           /\ calls[i].args = <<64, SettingRequest, 0, 0, last.timeout>>
    /\ pre.device_handle # None =>
         /\ Len(calls) = 1
         /\ calls[1].fn = "controlWrite"
         /\ (~calls[1].err /\ calls[1].n = 1) => ret.kind = "True"

(* C15 witness: sample-rate index 28, which the table does not hold, sent and
   accepted. *)
C15_Witness ==
  /\ last.op = "set_sample_rate"
  /\ last.n = 28
  /\ pre.device_handle # None
  /\ calls[1].data = <<chr(28)>>
  /\ ret.kind = "True"

(* C16: for every num_points >= 0 and every rate index,
   convert_sampling_rate_to_measurement_times returns num_points times, the
   i-th (from 0) equal to i / rate, so starting at 0 and strictly increasing
   with spacing 1 / rate, where (label, rate) is the SAMPLE_RATES entry of the
   index, or "? MS/s" and 1.0 for an index that has none; it raises nothing,
   performs no transfer and leaves the session as it was. *)
C16_SampleTimes ==
  last.op = "convert_sampling_rate_to_measurement_times" =>
    LET rate_index == last.data[1]
        known == rate_index \in 0..27
        rate == IF known THEN SAMPLE_RATES[rate_index].rate ELSE 1
        label == IF known THEN SAMPLE_RATES[rate_index].label ELSE "? MS/s"
    IN /\ ret.kind = "times"
       /\ Len(ret.v1) = last.n
       /\ \A i \in 1..last.n : ret.v1[i] = [num |-> i - 1, den |-> rate]
       /\ \A i \in 1..(last.n - 1) :
            /\ ret.v1[i + 1].den = ret.v1[i].den
            /\ ret.v1[i + 1].num = ret.v1[i].num + 1
       /\ rate > 0
       /\ rate_index \in 0..10 => (rate = 48000000 /\ label = "48 MS/s")
       /\ ret.v2 = <<label>>
       /\ calls = <<>>
       /\ SessionUnchanged

(* C16 witness: three times for index 28, which the table does not hold. *)
C16_Witness ==
  /\ last.op = "convert_sampling_rate_to_measurement_times"
  /\ last.n = 3
  /\ last.data = <<28>>
  /\ ret.v1 = <<[num |-> 0, den |-> 1], [num |-> 1, den |-> 1], [num |-> 2, den |-> 1]>>
  /\ ret.v2 = <<"? MS/s">>

(* The quotient (b - 128) * (5.0 * probe_multiplier) / (r * 128) of the
   scaling formula, for a raw byte b and a range r = r.num / r.den. *)
Volts(b, r, probe_multiplier) ==
  Div((b - 128) * 5 * probe_multiplier * r.den, r.num * 128)

(* Two quotients with positive denominators are the same number. *)
SameNumber(p, q) == p.num * q.den = q.num * p.den

(* C17 as stated: scale_read_data, given the half-range in volts of a range
   code (2.5 for 0x01), returns for every raw byte b the voltage
   (b - 128) * (5.0 * probe_multiplier) / (half_range_volts * 128). *)
C17_ScaleByHalfRange ==
  (last.op = "scale_read_data"
     /\ \E code \in DOMAIN VOLTAGE_RANGES : last.arg = VOLTAGE_RANGES[code].half) =>
    /\ ret.kind = "volts"
    /\ Len(ret.v1) = Len(last.data)
    /\ \A i \in DOMAIN last.data :
         SameNumber(ret.v1[i], Volts(last.data[i], last.arg, last.n))

(* C17, amended: scale_read_data takes the range code the channel was set to,
   an int, and returns for every raw byte b the voltage
   (b - 128) * (5.0 * probe_multiplier) / (range_code * 128): byte 128 gives 0,
   the voltage is strictly increasing in b for a positive code, and with code
   0x01 byte 255 gives (255 - 128) * 5.0 / 128; given a half-range in volts,
   a float, it raises a TypeError.  It performs no transfer and leaves the
   session as it was. *)
C17_ScaleByRangeCode ==
  last.op = "scale_read_data" =>
    /\ last.arg.isfloat => ret.kind = "TypeError"
    /\ (~last.arg.isfloat /\ last.arg.num > 0) =>
         /\ ret.kind = "volts"
         /\ Len(ret.v1) = Len(last.data)
         /\ \A i \in DOMAIN last.data :
              /\ ret.v1[i].den > 0
              /\ SameNumber(ret.v1[i], Volts(last.data[i], last.arg, last.n))
              /\ last.data[i] = 128 => ret.v1[i].num = 0
              /\ (last.data[i] = 255 /\ last.arg.num = 1 /\ last.n = 1) =>
                   SameNumber(ret.v1[i], Div(127 * 5, 128))
         /\ \A i, j \in DOMAIN last.data :
              last.data[i] < last.data[j] =>
                ret.v1[i].num * ret.v1[j].den < ret.v1[j].num * ret.v1[i].den
    /\ calls = <<>>
    /\ SessionUnchanged

(* C17 witness: every byte scaled with range code 0x01. *)
C17_Witness ==
  /\ last.op = "scale_read_data"
  /\ last.arg = IntArg(1)
  /\ last.n = 1
  /\ Len(last.data) = 256
  /\ ret.kind = "volts"
  /\ ret.v1[129] = Div(0, 128)
  /\ ret.v1[256] = Div(635, 128)

(* flash_firmware is in its sleep: every packet was written in full, in
   firmware order, by one control write with request 0xa0, the packet's value
   and index 0, on the handle the session has open, which is the handle that
   was open at the start if there was one; these writes are the last calls. *)
FlashUploaded ==
  /\ last.op = "flash_firmware"
  /\ ret.kind = "sleep"
  /\ device_handle # None
  /\ pre.device_handle # None => device_handle = pre.device_handle
  /\ Len(calls) >= Len(last.fw)
  /\ \A i \in DOMAIN calls :
       IF i <= Len(calls) - Len(last.fw) THEN ~IsTransfer(calls[i])
       ELSE LET packet == last.fw[i - (Len(calls) - Len(last.fw))] IN
            /\ calls[i].fn = "controlWrite"
            /\ calls[i].h = device_handle
            /\ calls[i].args = <<64, 160, packet.value, 0, last.timeout>>
            /\ calls[i].data = packet.data
            /\ ~calls[i].err
            /\ calls[i].n = packet.size

(* flash_firmware has returned from its sleep: it closed the handle the session
   had open with no releaseInterface, then ran discovery (call d), then opened
   a new handle (call p) and claimed interface 0 on it, and issued no
   transfer. *)
FlashReopened(d, p) ==
  /\ 1 < d
  /\ d < p
  /\ p < Len(calls)
  /\ calls[1].fn = "close"
  /\ pre.device_handle # None
  /\ calls[1].h = pre.device_handle
  /\ IsDiscovery(calls[d])
  /\ calls[p].fn = "open"
  /\ calls[Len(calls)].fn = "claimInterface"
  /\ calls[Len(calls)].h = device_handle
  /\ ~calls[Len(calls)].err
  /\ device_handle # pre.device_handle
  /\ \A i \in DOMAIN calls : calls[i].fn # "releaseInterface" /\ ~IsTransfer(calls[i])

(* A flash_firmware that no other call interrupted in its sleep returns True. *)
FlashSucceeds ==
  /\ last.op = "flash_firmware"
  /\ ret.kind = "sleep"
  /\ last'.op = "flash_firmware"
  /\ last'.arg = <<"wake">>
  /\ ret'.kind = "True"

(* C18: in every flash_firmware that returns True, all packets are written in
   firmware order, each as one control write with request 0xa0, the packet's
   value and index 0, on the handle open at the start; then that handle is
   closed with no releaseInterface; then discovery runs; then a new handle is
   opened and interface 0 claimed on it; no transfer follows the last packet. *)
C18_FlashOrder ==
  [][FlashSucceeds =>
       /\ FlashUploaded
       /\ \E d \in DOMAIN calls', p \in DOMAIN calls' :
            FlashReopened(d, p)' /\ pre'.device_handle = device_handle]_vars

(* Every call of the fast reader is a transfer on the handle it is bound to,
   and the session is left as it was. *)
ReaderOnBoundHandle ==
  last.op = "fast_read_data" =>
    /\ Len(calls) \in {1, 2}
    /\ \A i \in DOMAIN calls :
         /\ calls[i].fn \in {"controlRead", "bulkRead"}
         /\ calls[i].h = reader.h
         /\ reader.h # device_handle => calls[i].h # device_handle
    /\ SessionUnchanged

(* The binding of the fast reader changes only when build_data_reader returns
   a reader, and is then the handle the session has open. *)
ReaderBoundAtBuild ==
  reader' # reader =>
    /\ last'.op = "build_data_reader"
    /\ ret'.kind = "reader"
    /\ device_handle' # None
    /\ reader'.h = device_handle'

(* C19: a fast reader stays bound to the handle that was open when
   build_data_reader built it: no close, open or flash of the session changes
   the binding, every call of the reader issues its arm and bulk transfers on
   the bound handle, never on another handle the session has since opened,
   and the reader runs no discovery, opens and closes no handle, and leaves
   the session as it was. *)
C19_ReaderStaysBound == []ReaderOnBoundHandle /\ [][ReaderBoundAtBuild]_vars

(* C19 witness: the reader called after the session was closed and opened
   again on a new handle. *)
C19_Witness ==
  /\ last.op = "fast_read_data"
  /\ device_handle # None
  /\ reader.h # device_handle
  /\ Len(calls) >= 1
  /\ calls[1].h = reader.h

(* The last method was a command on an open session and it raised. *)
CommandFailed ==
  /\ last.op \in Commands
  /\ pre.device_handle # None
  /\ ret.kind \in {"AssertionError", "USBError"}

(* A failed command on an open session issued transfers on the session's
   handle and nothing else, and left the session, and the handle open and
   claimed, as they were. *)
FailureLeavesSession ==
  CommandFailed =>
    /\ SessionUnchanged
    /\ device_handle \in DOMAIN handles
    /\ handles[device_handle] = pre.handles[pre.device_handle]
    /\ Len(calls) >= 1
    /\ \A i \in DOMAIN calls : IsTransfer(calls[i]) /\ calls[i].h = pre.device_handle

(* The command after a failed one is issued on the same handle: its calls are
   transfers on the handle the failed command left open. *)
NextCommandOnSameHandle ==
  (CommandFailed /\ last'.op \in Commands) =>
    /\ pre'.device_handle = pre.device_handle
    /\ \A i \in DOMAIN calls' : IsTransfer(calls'[i]) /\ calls'[i].h = pre.device_handle

(* C20: a command that fails on an open session, through a transfer-length
   mismatch or a USBError of the transfer, leaves the context, the candidate
   device and the open handle as they were, the handle neither closed nor
   released, and the next command is issued on that same handle with no
   discovery and no open. *)
C20_FailureKeepsSession == []FailureLeavesSession /\ [][NextCommandOnSameHandle]_vars

(* C20 witness: set_calibration_values on an open session failed on a length
   mismatch. *)
C20_Witness ==
  /\ CommandFailed
  /\ last.op = "set_calibration_values"
  /\ ret.kind = "AssertionError"
  /\ ~calls[1].err
  /\ calls[1].n # Len(last.data)
  /\ device_handle = pre.device_handle

====
